---- MODULE Spec2Model ----
(***************************************************************************)
(* qr-craft: the generation pipeline (QRCodeGenerator), the reading        *)
(* pipeline (QRCodeReader) and the tab shell (App), as one state machine.  *)
(* Execution is single-threaded and event-driven: every action below is    *)
(* one event handler or one asynchronous callback, run to completion,      *)
(* followed by the React re-render it causes.                              *)
(***************************************************************************)
EXTENDS Integers, Sequences, FiniteSets, TLC

VARIABLES
    tab,            \* the selected tab of the shell: "create" or "read"
    qrCodeData,     \* reader: useState<string | null>  (<<>> is null)
    errorMessage,   \* reader: useState<string | null>
    qrCodeImage,    \* reader: useState<string | null>, the preview's data URL
    readerTasks,    \* reader: the attempts whose callbacks are still outstanding
    form,           \* generator: the react-hook-form values
    qrValue,        \* generator: useState(''), the committed value
    logo,           \* generator: useState<string | null>, the cropped logo
    logoTasks,      \* generator: the logo uploads whose callbacks are still outstanding
    timer,          \* generator: the debounce timer, <<ms left>> when pending
    view,           \* generator: what the last render put on the screen
    attempts,       \* history: the number of files the reader has accepted
    logoLoads,      \* history: the number of logo files the generator has accepted
    imageBy,        \* history: the attempt that last wrote qrCodeImage (0: none)
    resultBy,       \* history: the attempt that last wrote qrCodeData/errorMessage
    logoBy,         \* history: the logo upload that last wrote logo (0: none)
    removedAt,      \* history: the logo files accepted before the last "Remove Logo"
    lastText,       \* history: the text of the last edit of the value field
    quiet,          \* history: ms since the last edit of the value field, up to DebounceMs
    edits,          \* history: edits of the value field in the current burst, saturating
    commits,        \* history: setQrValue calls since the current burst of text edits began
    clean,          \* history: a burst has begun and no other field was edited since
    lastDrop,       \* history: per dropzone, what its handler was last called with
    copyTasks,      \* generator: the copyQRCode calls that are still awaiting something
    saves,          \* platform: the filenames of the file saves triggered, in order
    toasts,         \* platform: the notifications shown, in order
    downloads,      \* history: the number of downloadQRCode calls
    copies          \* history: the number of copyQRCode calls

readerState == <<qrCodeData, errorMessage, qrCodeImage, readerTasks>>
readerVars == <<qrCodeData, errorMessage, qrCodeImage, readerTasks, attempts, imageBy, resultBy>>
genState == <<form, qrValue, logo, logoTasks, timer, view>>
genHist == <<logoLoads, logoBy, removedAt, lastText, quiet, edits, commits, clean>>
exportVars == <<copyTasks, saves, toasts, downloads, copies>>
genVars == <<form, qrValue, logo, logoTasks, timer, view, genHist, exportVars>>
vars == <<tab, qrCodeData, errorMessage, qrCodeImage, readerTasks, form, qrValue, logo,
          logoTasks, timer, view, attempts, logoLoads, imageBy, resultBy, logoBy, lastText,
          quiet, edits, commits, clean, lastDrop, copyTasks, saves, toasts, downloads,
          copies, removedAt>>

(***************************************************************************)
(* Bounds of the model.                                                    *)
(***************************************************************************)
MaxAttempts == 2
MaxLogoLoads == 2
GenMaxUploads == 1
CommitCap == 2
TickMs == 250
AppMaxUploads == 1
MaxDim == 6
MaxDownloads == 2
MaxCopies == 2

(***************************************************************************)
(* Nullable values: null is the empty sequence, a value v is <<v>>.        *)
(***************************************************************************)
Null == <<>>
Some(v) == <<v>>
IsSet(x) == x # Null

(***************************************************************************)
(* Files a user can hand to the reader's dropzone, and what the platform   *)
(* does with each: FileReader.readAsDataURL, the Image load, and           *)
(* BrowserQRCodeReader.decodeFromImageElement.                             *)
(***************************************************************************)
ReaderFiles == {"qrA", "qrB", "blank", "corrupt", "unreadable"}

FileIsReadable(f) == f # "unreadable"
ImageLoads(f) == f # "corrupt"
HasQRCode(f) == f \in {"qrA", "qrB"}
DecodedText(f) == IF f = "qrA" THEN "https://example.com" ELSE "hello world"

DecodeErrorMessage == "No QR code found or unable to decode"

\* What the dropzone hands to onDrop: the accepted files (multiple: false).
ReaderAccepted == {<<>>} \cup {<<f>> : f \in ReaderFiles}

(***************************************************************************)
(* Generation pipeline: the form's input controls and defaults.            *)
(***************************************************************************)
DebounceMs == 500

Texts == {"", "a", "ab"}
AppTexts == {"", "a"}
Formats == {"png", "svg"}
Sizes == {256, 1024}
Margins == {2, 4}
FgColors == {"#000000", "#FF0000"}
BgColors == {"#FFFFFF", "#00FF00"}
LogoSizes == {20, 50}

\* A margin slider that goes one step further than the schema allows.
MarginRangeTo5 == 0..5

\* Everything the size select and the margin and logo size sliders offer.
SizePresets == {256, 512, 1024, 2048, 4096}
MarginRange == 0..4
LogoSizeRange == 1..50

defaultValues ==
    [value |-> "", format |-> "png", size |-> 1024, margin |-> 2,
     fgColor |-> "#000000", bgColor |-> "#FFFFFF", logoSize |-> 20]

\* Logo files a user can hand to the logo dropzone: a name and the size of
\* the image the file decodes to (img.width, img.height).
Wide == [name |-> "wide", width |-> 4, height |-> 2]
Tall == [name |-> "tall", width |-> 3, height |-> 5]
LogoFiles == {Wide, Tall}
ImgWidth(f) == f.width
ImgHeight(f) == f.height
LogoAccepted == {<<>>} \cup {<<f>> : f \in LogoFiles}

\* Images of every size up to MaxDim x MaxDim.
ImageFiles == [name : {"img"}, width : 1..MaxDim, height : 1..MaxDim]

Min(a, b) == IF a <= b THEN a ELSE b
Max(a, b) == IF a >= b THEN a ELSE b

\* A crop whose side is the longer side of the image.
CropOfLongSide(f) ==
    LET size == Max(ImgWidth(f), ImgHeight(f))
    IN  [src |-> f, size |-> size,
         offsetX2 |-> ImgWidth(f) - size, offsetY2 |-> ImgHeight(f) - size]

\* img.onload of processImage: the centred square crop. The offsets
\* (width - size) / 2 may be half-integers: they are kept doubled.
CropOf(f) ==
    LET size == Min(ImgWidth(f), ImgHeight(f))
    IN  [src |-> f, size |-> size,
         offsetX2 |-> ImgWidth(f) - size, offsetY2 |-> ImgHeight(f) - size]

\* handleSubmit: the value setQrValue is called with.
handleSubmit(f) == f.value

\* A debounce that leaves a pending timer running instead of restarting it.
debounceKeepsTimer(t) == IF t = Null THEN Some(DebounceMs) ELSE t

\* debouncedHandleSubmit(): the trailing call is due DebounceMs after this call,
\* whatever timer was pending.
debouncedHandleSubmit(t) == Some(DebounceMs)

\* The imageSettings prop of the vector widget with the logo size taken as
\* pixels instead of a percentage of the artifact's size.
SVGImageSettingsInPixels(f, l) ==
    IF l # Null
    THEN Some([src |-> l[1],
               height100 |-> 100 * f.logoSize,
               width100 |-> 100 * f.logoSize,
               excavate |-> TRUE])
    ELSE Null

\* The imageSettings prop of QRCodeSVG. Heights and widths are
\* size * logoSize / 100, not always whole: they are kept times 100.
SVGImageSettings(f, l) ==
    IF l # Null
    THEN Some([src |-> l[1],
               height100 |-> f.size * f.logoSize,
               width100 |-> f.size * f.logoSize,
               excavate |-> TRUE])
    ELSE Null

\* The imageSettings prop of QRCodeCanvas.
CanvasImageSettings(f, l) ==
    IF l # Null
    THEN Some([src |-> l[1],
               height100 |-> f.size * f.logoSize,
               width100 |-> f.size * f.logoSize,
               excavate |-> TRUE])
    ELSE Null

\* The overlay of the widget the format selects.
ImageSettings(f, l) ==
    IF f.format = "png" THEN CanvasImageSettings(f, l) ELSE SVGImageSettings(f, l)

\* A render that never disables the copy button.
RenderCopyEnabled(f, v, l) ==
    [artifact |-> IF v = "" THEN "none"
                  ELSE IF f.format = "png" THEN "canvas" ELSE "svg",
     actionsShown |-> v # "",
     value |-> v,
     size |-> f.size,
     marginSize |-> f.margin,
     fgColor |-> f.fgColor,
     bgColor |-> f.bgColor,
     imageSettings |-> ImageSettings(f, l),
     copyDisabled |-> FALSE,
     logoPreview |-> l]

\* A render that shows the artifact for the form's text instead of the
\* committed value.
RenderFromFormValue(f, v, l) ==
    [artifact |-> IF f.value = "" THEN "none"
                  ELSE IF f.format = "png" THEN "canvas" ELSE "svg",
     actionsShown |-> f.value # "",
     value |-> f.value,
     size |-> f.size,
     marginSize |-> f.margin,
     fgColor |-> f.fgColor,
     bgColor |-> f.bgColor,
     imageSettings |-> ImageSettings(f, l),
     copyDisabled |-> f.format = "svg",
     logoPreview |-> l]

\* A render that draws the raster widget whatever the format is.
RenderAlwaysCanvas(f, v, l) ==
    [artifact |-> IF v = "" THEN "none" ELSE "canvas",
     actionsShown |-> v # "",
     value |-> v,
     size |-> f.size,
     marginSize |-> f.margin,
     fgColor |-> f.fgColor,
     bgColor |-> f.bgColor,
     imageSettings |-> ImageSettings(f, l),
     copyDisabled |-> f.format = "svg",
     logoPreview |-> l]

\* The JSX the component returns for a given state: the artifact and its
\* props, the export buttons, and the logo preview.
Render(f, v, l) ==
    [artifact |-> IF v = "" THEN "none"
                  ELSE IF f.format = "png" THEN "canvas" ELSE "svg",
     actionsShown |-> v # "",
     value |-> v,
     size |-> f.size,
     marginSize |-> f.margin,
     fgColor |-> f.fgColor,
     bgColor |-> f.bgColor,
     imageSettings |-> ImageSettings(f, l),
     copyDisabled |-> f.format = "svg",
     logoPreview |-> l]

\* The counter of setQrValue calls, saturating.
Bump(n) == Min(n + 1, CommitCap)

(***************************************************************************)
(* Initial state: both components freshly constructed, the "create" tab    *)
(* selected.                                                               *)
(***************************************************************************)
ReaderFresh ==
    /\ qrCodeData = Null
    /\ errorMessage = Null
    /\ qrCodeImage = Null
    /\ readerTasks = {}
    /\ attempts = 0
    /\ imageBy = 0
    /\ resultBy = 0

GeneratorFresh ==
    /\ form = defaultValues
    /\ qrValue = ""
    /\ logo = Null
    /\ logoTasks = {}
    /\ logoLoads = 0
    /\ timer = Null
    /\ view = Render(defaultValues, "", Null)
    /\ logoBy = 0
    /\ removedAt = 0
    /\ lastText = ""
    /\ quiet = DebounceMs
    /\ edits = 0
    /\ commits = 0
    /\ clean = FALSE
    /\ copyTasks = {}
    /\ saves = <<>>
    /\ toasts = <<>>
    /\ downloads = 0
    /\ copies = 0

Init ==
    /\ tab = "create"
    /\ ReaderFresh
    /\ GeneratorFresh
    /\ lastDrop = [reader |-> "none", logo |-> "none"]

(***************************************************************************)
(* Reading pipeline.                                                       *)
(***************************************************************************)
\* An onDrop that clears the previous outcome before it looks at the files.
ReaderOnDropClearsFirst(acceptedFiles) ==
    /\ tab = "read"
    /\ qrCodeData' = Null
    /\ errorMessage' = Null
    /\ qrCodeImage' = Null
    /\ IF Len(acceptedFiles) > 0
       THEN /\ attempts < MaxAttempts
            /\ attempts' = attempts + 1
            /\ readerTasks' = readerTasks \cup
                   {[id |-> attempts', file |-> acceptedFiles[1], stage |-> "reading"]}
            /\ lastDrop' = [lastDrop EXCEPT !.reader = "file"]
       ELSE /\ attempts' = attempts
            /\ readerTasks' = readerTasks
            /\ lastDrop' = [lastDrop EXCEPT !.reader = "empty"]
    /\ UNCHANGED <<tab, imageBy, resultBy>>
    /\ UNCHANGED genVars

\* onDrop: with no accepted file nothing happens; otherwise a FileReader is
\* started on the first accepted file.
ReaderOnDrop(acceptedFiles) ==
    /\ tab = "read"
    /\ IF Len(acceptedFiles) > 0
       THEN /\ attempts < MaxAttempts
            /\ attempts' = attempts + 1
            /\ readerTasks' = readerTasks \cup
                   {[id |-> attempts', file |-> acceptedFiles[1], stage |-> "reading"]}
            /\ lastDrop' = [lastDrop EXCEPT !.reader = "file"]
       ELSE /\ attempts' = attempts
            /\ readerTasks' = readerTasks
            /\ lastDrop' = [lastDrop EXCEPT !.reader = "empty"]
    /\ UNCHANGED <<tab, qrCodeData, errorMessage, qrCodeImage, imageBy, resultBy>>
    /\ UNCHANGED genVars

\* An outstanding attempt moves to its next stage, or completes.
Advance(tasks, k, stage) == (tasks \ {k}) \cup {[k EXCEPT !.stage = stage]}
Complete(tasks, k) == tasks \ {k}

\* reader.onload: the data URL becomes the preview and the image starts loading.
ReaderFileLoaded(k) ==
    /\ k.stage = "reading"
    /\ FileIsReadable(k.file)
    /\ qrCodeImage' = Some(k.file)
    /\ imageBy' = k.id
    /\ readerTasks' = Advance(readerTasks, k, "loading")
    /\ lastDrop' = lastDrop
    /\ UNCHANGED <<tab, qrCodeData, errorMessage, attempts, resultBy>>
    /\ UNCHANGED genVars

\* The FileReader reports an error: no handler is registered for it.
ReaderFileError(k) ==
    /\ k.stage = "reading"
    /\ ~FileIsReadable(k.file)
    /\ readerTasks' = Advance(readerTasks, k, "readFailed")
    /\ lastDrop' = lastDrop
    /\ UNCHANGED <<tab, qrCodeData, errorMessage, qrCodeImage, attempts, imageBy, resultBy>>
    /\ UNCHANGED genVars

\* img.onload: the decode is started and awaited.
ReaderImageLoaded(k) ==
    /\ k.stage = "loading"
    /\ ImageLoads(k.file)
    /\ readerTasks' = Advance(readerTasks, k, "decoding")
    /\ lastDrop' = lastDrop
    /\ UNCHANGED <<tab, qrCodeData, errorMessage, qrCodeImage, attempts, imageBy, resultBy>>
    /\ UNCHANGED genVars

\* The image fails to load: no onerror handler is registered.
ReaderImageError(k) ==
    /\ k.stage = "loading"
    /\ ~ImageLoads(k.file)
    /\ readerTasks' = Advance(readerTasks, k, "loadFailed")
    /\ lastDrop' = lastDrop
    /\ UNCHANGED <<tab, qrCodeData, errorMessage, qrCodeImage, attempts, imageBy, resultBy>>
    /\ UNCHANGED genVars

\* A decode callback whose catch branch sets the message but keeps the text.
ReaderDecodeSettledKeepsText(k) ==
    /\ k.stage = "decoding"
    /\ IF HasQRCode(k.file)
       THEN /\ qrCodeData' = Some(DecodedText(k.file))
            /\ errorMessage' = Null
       ELSE /\ qrCodeData' = qrCodeData
            /\ errorMessage' = Some(DecodeErrorMessage)
    /\ resultBy' = k.id
    /\ readerTasks' = Complete(readerTasks, k)
    /\ lastDrop' = lastDrop
    /\ UNCHANGED <<tab, qrCodeImage, attempts, imageBy>>
    /\ UNCHANGED genVars

\* The awaited decode settles: the try branch on success, the catch branch
\* on any failure.
ReaderDecodeSettled(k) ==
    /\ k.stage = "decoding"
    /\ IF HasQRCode(k.file)
       THEN /\ qrCodeData' = Some(DecodedText(k.file))
            /\ errorMessage' = Null
       ELSE /\ qrCodeData' = Null
            /\ errorMessage' = Some(DecodeErrorMessage)
    /\ resultBy' = k.id
    /\ readerTasks' = Complete(readerTasks, k)
    /\ lastDrop' = lastDrop
    /\ UNCHANGED <<tab, qrCodeImage, attempts, imageBy>>
    /\ UNCHANGED genVars

ReaderNext ==
    \/ \E a \in ReaderAccepted : ReaderOnDrop(a)
    \/ \E k \in readerTasks : ReaderFileLoaded(k)
    \/ \E k \in readerTasks : ReaderFileError(k)
    \/ \E k \in readerTasks : ReaderImageLoaded(k)
    \/ \E k \in readerTasks : ReaderImageError(k)
    \/ \E k \in readerTasks : ReaderDecodeSettled(k)

\* The reading pipeline alone, with its tab selected.
ReaderInit ==
    /\ tab = "read"
    /\ ReaderFresh
    /\ GeneratorFresh
    /\ lastDrop = [reader |-> "none", logo |-> "none"]

ReaderSpec == ReaderInit /\ [][ReaderNext]_vars

\* The callbacks of the platform: every asynchronous operation that was
\* started eventually reports its outcome, success or failure.
ReaderCallbacks ==
    \/ \E k \in readerTasks : ReaderFileLoaded(k)
    \/ \E k \in readerTasks : ReaderFileError(k)
    \/ \E k \in readerTasks : ReaderImageLoaded(k)
    \/ \E k \in readerTasks : ReaderImageError(k)
    \/ \E k \in readerTasks : ReaderDecodeSettled(k)

ReaderFairSpec == ReaderInit /\ [][ReaderNext]_vars /\ WF_vars(ReaderCallbacks)

(***************************************************************************)
(* Generation pipeline.                                                    *)
(***************************************************************************)
\* The debounce timer is due: its callback is the next thing the event loop
\* runs for this component.
TimerDue == timer # Null /\ timer[1] = 0

\* A value edit that calls handleSubmit() at once instead of the debounced one.
EditValueEager(t) ==
    /\ tab = "create"
    /\ ~TimerDue
    /\ t # form.value
    /\ form' = [form EXCEPT !.value = t]
    /\ qrValue' = handleSubmit(form')
    /\ view' = Render(form', qrValue', logo)
    /\ lastText' = t
    /\ quiet' = 0
    /\ edits' = IF quiet < DebounceMs THEN Bump(edits) ELSE 1
    /\ commits' = Bump(IF quiet < DebounceMs THEN commits ELSE 0)
    /\ clean' = IF quiet < DebounceMs THEN clean ELSE TRUE
    /\ lastDrop' = lastDrop
    /\ UNCHANGED <<timer, logo, logoTasks, logoLoads, removedAt, logoBy, tab>>
    /\ UNCHANGED exportVars
    /\ UNCHANGED readerVars

\* The value input changes: the watch subscription calls
\* debouncedHandleSubmit(), and the component re-renders. A due timer's
\* callback runs before a later input event is handled.
EditValue(t) ==
    /\ tab = "create"
    /\ ~TimerDue
    /\ t # form.value
    /\ form' = [form EXCEPT !.value = t]
    /\ timer' = debouncedHandleSubmit(timer)
    /\ view' = Render(form', qrValue, logo)
    /\ lastText' = t
    /\ quiet' = 0
    /\ edits' = IF quiet < DebounceMs THEN Bump(edits) ELSE 1
    /\ commits' = IF quiet < DebounceMs THEN commits ELSE 0
    /\ clean' = IF quiet < DebounceMs THEN clean ELSE TRUE
    /\ lastDrop' = lastDrop
    /\ UNCHANGED <<qrValue, logo, logoTasks, logoLoads, removedAt, logoBy, tab>>
    /\ UNCHANGED exportVars
    /\ UNCHANGED readerVars

\* Any other field changes, giving the form values g: the watch subscription
\* calls handleSubmit() at once, and the component re-renders.
EditOther(g) ==
    /\ tab = "create"
    /\ form' = g
    /\ qrValue' = handleSubmit(form')
    /\ view' = Render(form', qrValue', logo)
    /\ commits' = Bump(commits)
    /\ clean' = FALSE
    /\ lastDrop' = lastDrop
    /\ UNCHANGED <<timer, logo, logoTasks, logoLoads, removedAt, logoBy, lastText, quiet, edits, tab>>
    /\ UNCHANGED exportVars
    /\ UNCHANGED readerVars

EditFormat(x) == EditOther([form EXCEPT !.format = x])
EditSize(x) == EditOther([form EXCEPT !.size = x])
EditMargin(x) == EditOther([form EXCEPT !.margin = x])
EditFgColor(x) == EditOther([form EXCEPT !.fgColor = x])
EditBgColor(x) == EditOther([form EXCEPT !.bgColor = x])
EditLogoSize(x) == EditOther([form EXCEPT !.logoSize = x])

\* TickMs of time pass while the value field is quiet; a timer that is due
\* fires before more time passes.
Tick ==
    /\ quiet < DebounceMs
    /\ ~TimerDue
    /\ quiet' = Min(DebounceMs, quiet + TickMs)
    /\ timer' = IF timer = Null THEN Null ELSE Some(Max(0, timer[1] - TickMs))
    /\ lastDrop' = lastDrop
    /\ UNCHANGED <<form, qrValue, logo, logoTasks, view, logoLoads, removedAt, logoBy, lastText, edits,
                   commits, clean, tab>>
    /\ UNCHANGED exportVars
    /\ UNCHANGED readerVars

\* A timer callback that finds nothing to do: the trailing call is dropped.
TimerFireDropsCall ==
    /\ TimerDue
    /\ qrValue' = qrValue
    /\ timer' = Null
    /\ view' = Render(form, qrValue', logo)
    /\ commits' = commits
    /\ lastDrop' = lastDrop
    /\ UNCHANGED <<form, logo, logoTasks, logoLoads, removedAt, logoBy, lastText, quiet, edits,
                   clean, tab>>
    /\ UNCHANGED exportVars
    /\ UNCHANGED readerVars

\* The debounce timer fires: the trailing call of handleSubmit.
TimerFire ==
    /\ TimerDue
    /\ qrValue' = handleSubmit(form)
    /\ timer' = Null
    /\ view' = Render(form, qrValue', logo)
    /\ commits' = Bump(commits)
    /\ lastDrop' = lastDrop
    /\ UNCHANGED <<form, logo, logoTasks, logoLoads, removedAt, logoBy, lastText, quiet, edits, clean,
                   tab>>
    /\ UNCHANGED exportVars
    /\ UNCHANGED readerVars

\* handleLogoUpload as the dropzone calls it: with no accepted file nothing
\* happens; otherwise a FileReader is started on the first accepted file.
handleLogoUpload(acceptedFiles) ==
    /\ tab = "create"
    /\ IF Len(acceptedFiles) > 0
       THEN /\ logoLoads < MaxLogoLoads
            /\ logoLoads' = logoLoads + 1
            /\ logoTasks' = logoTasks \cup
                   {[id |-> logoLoads', file |-> acceptedFiles[1], stage |-> "reading"]}
            /\ lastDrop' = [lastDrop EXCEPT !.logo = "file"]
       ELSE /\ logoLoads' = logoLoads
            /\ logoTasks' = logoTasks
            /\ lastDrop' = [lastDrop EXCEPT !.logo = "empty"]
    /\ UNCHANGED <<form, qrValue, logo, timer, view, logoBy, removedAt, lastText, quiet, edits, commits,
                   clean, tab>>
    /\ UNCHANGED exportVars
    /\ UNCHANGED readerVars

\* reader.onload: processImage creates the image and starts its load.
LogoFileLoaded(k) ==
    /\ k.stage = "reading"
    /\ logoTasks' = Advance(logoTasks, k, "loading")
    /\ lastDrop' = lastDrop
    /\ UNCHANGED <<form, qrValue, logo, timer, view, logoLoads, removedAt, logoBy, lastText, quiet, edits,
                   commits, clean, tab>>
    /\ UNCHANGED exportVars
    /\ UNCHANGED readerVars

\* img.onload: the crop is drawn and becomes the logo.
LogoImageLoaded(k) ==
    /\ k.stage = "loading"
    /\ logo' = Some(CropOf(k.file))
    /\ logoBy' = k.id
    /\ logoTasks' = Complete(logoTasks, k)
    /\ view' = Render(form, qrValue, logo')
    /\ lastDrop' = lastDrop
    /\ UNCHANGED <<form, qrValue, timer, logoLoads, removedAt, lastText, quiet, edits, commits, clean, tab>>
    /\ UNCHANGED exportVars
    /\ UNCHANGED readerVars

\* A "Remove Logo" that also puts the logo size back to its default.
RemoveLogoResetsSize ==
    /\ tab = "create"
    /\ logo # Null
    /\ logo' = Null
    /\ removedAt' = logoLoads
    /\ form' = [form EXCEPT !.logoSize = defaultValues.logoSize]
    /\ view' = Render(form', qrValue, logo')
    /\ lastDrop' = lastDrop
    /\ UNCHANGED <<qrValue, logoTasks, timer, logoLoads, logoBy, lastText, quiet, edits,
                   commits, clean, tab>>
    /\ UNCHANGED exportVars
    /\ UNCHANGED readerVars

\* The "Remove Logo" button, shown while a logo is set.
RemoveLogo ==
    /\ tab = "create"
    /\ logo # Null
    /\ logo' = Null
    /\ removedAt' = logoLoads
    /\ view' = Render(form, qrValue, logo')
    /\ lastDrop' = lastDrop
    /\ UNCHANGED <<form, qrValue, logoTasks, timer, logoLoads, logoBy, lastText, quiet, edits,
                   commits, clean, tab>>
    /\ UNCHANGED exportVars
    /\ UNCHANGED readerVars

(***************************************************************************)
(* Export: download and copy to clipboard.                                 *)
(***************************************************************************)
\* qrRef.current: the element the last render attached the ref to.
qrRef == view.artifact

CopySuccessToast == "QR Code copied to clipboard!"
CopyErrorToast == "Failed to copy QR Code. Please try again."
DownloadErrorToast == "Failed to generate QR code. Please try again."

\* A download that names every file "qrcode.png".
DownloadOutcomeOneName(format, current) ==
    IF current = "none"
    THEN [save |-> Null, toast |-> Null]
    ELSE IF format = "png" /\ current = "canvas"
    THEN [save |-> Some("qrcode.png"), toast |-> Null]
    ELSE IF format = "svg" /\ current = "svg"
    THEN [save |-> Some("qrcode.png"), toast |-> Null]
    ELSE [save |-> Null, toast |-> Some(DownloadErrorToast)]

\* The body of downloadQRCode for a format and a ref: the file it saves
\* through downloadFile, and the notification it shows.
DownloadOutcome(format, current) ==
    IF current = "none"
    THEN [save |-> Null, toast |-> Null]
    ELSE IF format = "png" /\ current = "canvas"
    THEN [save |-> Some("qrcode.png"), toast |-> Null]
    ELSE IF format = "svg" /\ current = "svg"
    THEN [save |-> Some("qrcode.svg"), toast |-> Null]
    ELSE [save |-> Null, toast |-> Some(DownloadErrorToast)]

\* The list xs, with the value of x appended when x is not null.
AppendIfSet(xs, x) == IF x = Null THEN xs ELSE Append(xs, x[1])

\* The "Download QR Code" button, shown with the artifact.
downloadQRCode ==
    /\ tab = "create"
    /\ view.actionsShown
    /\ downloads < MaxDownloads
    /\ downloads' = downloads + 1
    /\ LET r == DownloadOutcome(form.format, qrRef)
       IN  /\ saves' = AppendIfSet(saves, r.save)
           /\ toasts' = AppendIfSet(toasts, r.toast)
    /\ lastDrop' = lastDrop
    /\ UNCHANGED <<form, qrValue, logo, logoTasks, timer, view, genHist, copyTasks, copies, tab>>
    /\ UNCHANGED readerVars

\* The "Copy QR Code" button, enabled for the raster format: up to the
\* first await, where canvas.toBlob is pending.
copyQRCode ==
    /\ tab = "create"
    /\ view.actionsShown
    /\ ~view.copyDisabled
    /\ copies < MaxCopies
    /\ copies' = copies + 1
    /\ copyTasks' = IF qrRef # "none" /\ form.format = "png" /\ qrRef = "canvas"
                    THEN copyTasks \cup {[id |-> copies', stage |-> "toBlob"]}
                    ELSE copyTasks
    /\ lastDrop' = lastDrop
    /\ UNCHANGED <<form, qrValue, logo, logoTasks, timer, view, genHist, saves, toasts,
                   downloads, tab>>
    /\ UNCHANGED readerVars

\* What canvas.toBlob can come back with, and how clipboard.write can settle.
BlobOutcomes == {"bytes", "null", "throws"}
WriteOutcomes == {"resolves", "rejects"}

\* The first await returns: with bytes the clipboard write is started and
\* awaited, with null the function returns, and a throw lands in the catch.
CopyBlobReady(k, blob) ==
    /\ k.stage = "toBlob"
    /\ copyTasks' = IF blob = "bytes" THEN Advance(copyTasks, k, "writing")
                    ELSE Complete(copyTasks, k)
    /\ toasts' = IF blob = "throws" THEN Append(toasts, CopyErrorToast) ELSE toasts
    /\ lastDrop' = lastDrop
    /\ UNCHANGED <<form, qrValue, logo, logoTasks, timer, view, genHist, saves, downloads,
                   copies, tab>>
    /\ UNCHANGED readerVars

\* The clipboard write settles: the success toast, or the catch's toast.
CopyWriteSettled(k, outcome) ==
    /\ k.stage = "writing"
    /\ copyTasks' = Complete(copyTasks, k)
    /\ toasts' = Append(toasts, IF outcome = "resolves" THEN CopySuccessToast
                                ELSE CopyErrorToast)
    /\ lastDrop' = lastDrop
    /\ UNCHANGED <<form, qrValue, logo, logoTasks, timer, view, genHist, saves, downloads,
                   copies, tab>>
    /\ UNCHANGED readerVars

\* The generator's text and format controls with the export buttons.
ExportNext ==
    \/ \E t \in AppTexts : EditValue(t)
    \/ \E x \in Formats : EditFormat(x)
    \/ Tick
    \/ TimerFire
    \/ downloadQRCode
    \/ copyQRCode
    \/ \E k \in copyTasks : \E b \in BlobOutcomes : CopyBlobReady(k, b)
    \/ \E k \in copyTasks : \E o \in WriteOutcomes : CopyWriteSettled(k, o)

ExportSpec == Init /\ [][ExportNext]_vars

\* The logo upload alone, given one image of any size up to MaxDim x MaxDim.
CropNext ==
    \/ \E f \in ImageFiles : logoLoads < GenMaxUploads /\ handleLogoUpload(<<f>>)
    \/ \E k \in logoTasks : LogoFileLoaded(k)
    \/ \E k \in logoTasks : LogoImageLoaded(k)
    \/ RemoveLogo

CropSpec == Init /\ [][CropNext]_vars

\* The logo controls alone: up to MaxLogoLoads uploads, whose callbacks run
\* in any order, and the "Remove Logo" button.
LogoNext ==
    \/ \E a \in LogoAccepted : handleLogoUpload(a)
    \/ \E k \in logoTasks : LogoFileLoaded(k)
    \/ \E k \in logoTasks : LogoImageLoaded(k)
    \/ RemoveLogo

LogoSpec == Init /\ [][LogoNext]_vars

\* The generator alone is given one logo file and no empty drops.
GenLogoFiles == {Wide}

\* The form alone, with every value its size, margin and logo size controls
\* offer, all within one quiet period: the text is committed by the edits of
\* the other fields.
FormNext ==
    \/ \E t \in AppTexts : EditValue(t)
    \/ \E x \in Formats : EditFormat(x)
    \/ \E x \in SizePresets : EditSize(x)
    \/ \E x \in MarginRange : EditMargin(x)
    \/ \E x \in LogoSizeRange : EditLogoSize(x)

FormSpec == Init /\ [][FormNext]_vars

\* The artifact with a logo, at every size and every logo size, within one
\* quiet period.
OverlayNext ==
    \/ EditValue("a")
    \/ \E x \in Formats : EditFormat(x)
    \/ \E x \in SizePresets : EditSize(x)
    \/ \E x \in LogoSizeRange : EditLogoSize(x)
    \/ \E f \in GenLogoFiles : logoLoads < GenMaxUploads /\ handleLogoUpload(<<f>>)
    \/ \E k \in logoTasks : LogoFileLoaded(k)
    \/ \E k \in logoTasks : LogoImageLoaded(k)
    \/ RemoveLogo

OverlaySpec == Init /\ [][OverlayNext]_vars

GenNext ==
    \/ \E t \in Texts : EditValue(t)
    \/ \E x \in Formats : EditFormat(x)
    \/ \E x \in Sizes : EditSize(x)
    \/ \E x \in Margins : EditMargin(x)
    \/ \E x \in FgColors : EditFgColor(x)
    \/ \E x \in BgColors : EditBgColor(x)
    \/ \E x \in LogoSizes : EditLogoSize(x)
    \/ Tick
    \/ TimerFire
    \/ \E f \in GenLogoFiles : logoLoads < GenMaxUploads /\ handleLogoUpload(<<f>>)
    \/ \E k \in logoTasks : LogoFileLoaded(k)
    \/ \E k \in logoTasks : LogoImageLoaded(k)
    \/ RemoveLogo

GenSpec == Init /\ [][GenNext]_vars

(***************************************************************************)
(* The shell: two tabs over the two pipelines, both kept in memory.        *)
(***************************************************************************)
Tabs == {"create", "read"}

\* A tab switch that unmounts the content it hides: the generator is
\* constructed afresh when "create" is shown again.
SwitchTabRemounts(t) ==
    /\ t # tab
    /\ tab' = t
    /\ IF t = "create"
       THEN /\ form' = defaultValues
            /\ qrValue' = ""
            /\ logo' = Null
            /\ timer' = Null
            /\ view' = Render(defaultValues, "", Null)
       ELSE UNCHANGED <<form, qrValue, logo, timer, view>>
    /\ lastDrop' = lastDrop
    /\ UNCHANGED <<logoTasks, genHist>>
    /\ UNCHANGED exportVars
    /\ UNCHANGED readerVars

\* A TabsTrigger is clicked: the other tab's content is shown.
SwitchTab(t) ==
    /\ t # tab
    /\ tab' = t
    /\ lastDrop' = lastDrop
    /\ UNCHANGED genVars
    /\ UNCHANGED readerVars

\* The whole application: both pipelines and the shell, driven with fewer
\* distinct inputs per control and fewer uploads, and with every list of
\* accepted files a dropzone can hand over, the empty one included.
AppReaderAccepted == {<<>>, <<"qrA">>}
AppLogoAccepted == {<<>>, <<Tall>>}

Next ==
    \/ \E t \in Tabs : SwitchTab(t)
    \/ \E t \in AppTexts : EditValue(t)
    \/ \E x \in Formats : EditFormat(x)
    \/ Tick
    \/ TimerFire
    \/ \E a \in AppLogoAccepted : (a = <<>> \/ logoLoads < AppMaxUploads) /\ handleLogoUpload(a)
    \/ \E k \in logoTasks : LogoFileLoaded(k)
    \/ \E k \in logoTasks : LogoImageLoaded(k)
    \/ RemoveLogo
    \/ \E a \in AppReaderAccepted : (a = <<>> \/ attempts < AppMaxUploads) /\ ReaderOnDrop(a)
    \/ \E k \in readerTasks : ReaderFileLoaded(k)
    \/ \E k \in readerTasks : ReaderImageLoaded(k)
    \/ \E k \in readerTasks : ReaderDecodeSettled(k)

Spec == Init /\ [][Next]_vars

(***************************************************************************)
(* Properties of the reading pipeline (checked under ReaderSpec).          *)
(***************************************************************************)
\* C1: when a file is accepted while an earlier file's read, load or decode
\* is still outstanding, no callback of the earlier file overwrites the
\* preview or the result once the later file has written them, and once
\* every callback has run the preview and the result are the later file's.
C1_LaterFileSupersedes ==
    [][/\ imageBy' >= imageBy
       /\ resultBy' >= resultBy
       /\ (readerTasks' = {} /\ attempts' > 0
             => imageBy' = attempts' /\ resultBy' = attempts')]_vars

\* C2: once a newly accepted file has set its preview, and until its own
\* decode completes, no decoded text and no error message is held: the
\* result of the previous attempt has been discarded.
C2_AcceptDiscardsPriorResult ==
    (attempts > 0 /\ imageBy = attempts /\ resultBy # attempts)
        => (qrCodeData = Null /\ errorMessage = Null)

\* C3: qrCodeData and errorMessage are never both set; both are null until
\* the first decode completes; from then on exactly one of them is set, and
\* the error message is only ever the fixed one.
C3_ExactlyOneOutcome ==
    /\ ~(IsSet(qrCodeData) /\ IsSet(errorMessage))
    /\ (resultBy = 0 => qrCodeData = Null /\ errorMessage = Null)
    /\ (resultBy > 0 => IsSet(qrCodeData) # IsSet(errorMessage))
    /\ errorMessage \in {Null, Some(DecodeErrorMessage)}
    /\ qrCodeData \in {Null} \cup {Some(DecodedText(f)) : f \in {g \in ReaderFiles : HasQRCode(g)}}

\* A second attempt has failed to decode: the message is set and the text is null.
C3_Witness ==
    /\ resultBy = 2
    /\ errorMessage = Some(DecodeErrorMessage)
    /\ qrCodeData = Null

\* C15: every decode attempt that starts with an accepted file eventually
\* finishes, in Decoded or in DecodeFailed, when every platform operation
\* eventually reports an outcome: also when the file read fails or the image
\* fails to load (checked under ReaderFairSpec).
C15_EveryAttemptFinishes ==
    \A i \in 1..MaxAttempts :
        (attempts >= i) ~> (attempts >= i /\ \A k \in readerTasks : k.id # i)

\* C18: whenever a decoded text or an error message is held, it was produced
\* by decoding the image held as the preview: the attempt that last wrote
\* the result is the attempt that last wrote the preview.
C18_ResultBelongsToPreview ==
    (IsSet(qrCodeData) \/ IsSet(errorMessage))
        => (IsSet(qrCodeImage) /\ imageBy = resultBy)

(***************************************************************************)
(* Properties of the generation pipeline (checked under GenSpec).          *)
(***************************************************************************)
\* C4: a burst of N >= 1 edits of the value field, each less than DebounceMs
\* after the previous one and with no other field edited since the burst
\* began, updates qrValue exactly once: not while the timer is pending, which
\* is due DebounceMs after the last edit, and once when it has fired, to the
\* text of the last edit.
C4_OneCommitPerBurst ==
    clean =>
        IF timer # Null
        THEN commits = 0 /\ timer[1] = DebounceMs - quiet
        ELSE quiet = DebounceMs /\ commits = 1 /\ qrValue = lastText

\* A burst of at least two edits has been committed, once, as its last text.
C4_Witness ==
    /\ clean
    /\ timer = Null
    /\ edits >= 2
    /\ commits = 1
    /\ qrValue = "ab"

\* C5 as stated: while the debounce timer of a text edit is pending, qrValue
\* has not been set to that edit's text, whatever else was edited meanwhile.
C5_NoCommitWhilePending ==
    (timer # Null /\ commits > 0) => qrValue # lastText

\* What the rendered artifact shows of the form values f.
ViewReflects(vw, f) ==
    /\ vw.size = f.size
    /\ vw.marginSize = f.margin
    /\ vw.fgColor = f.fgColor
    /\ vw.bgColor = f.bgColor
    /\ vw.copyDisabled = (f.format = "svg")
    /\ (vw.artifact # "none" => vw.artifact = IF f.format = "png" THEN "canvas" ELSE "svg")
    /\ (vw.imageSettings # Null => /\ vw.imageSettings[1].width100 = f.size * f.logoSize
                                   /\ vw.imageSettings[1].height100 = f.size * f.logoSize)

\* C5 as amended: an edit of the value field leaves qrValue as it is and
\* starts the full quiet period; qrValue changes only to the form's current
\* text, and only when the timer fires at the end of the quiet period or
\* when another field's control reports a change, which leaves the timer
\* as it is; an edit of another field commits the
\* form's text at once and shows at once on the rendered artifact.
C5_TextDeferredOthersImmediate ==
    [][/\ (form'.value # form.value
             => qrValue' = qrValue /\ timer' = Some(DebounceMs))
       /\ (qrValue' # qrValue
             => /\ qrValue' = form'.value
                /\ form'.value = form.value
                /\ \/ timer' = timer
                   \/ (TimerDue /\ timer' = Null /\ quiet = DebounceMs /\ form' = form))
       /\ (form' # form /\ form'.value = form.value
             => qrValue' = form'.value /\ ViewReflects(view', form'))]_vars

\* Another field was edited during the quiet period: the text is committed
\* and the vector artifact is shown while the timer is still pending.
C5_Witness ==
    /\ timer # Null
    /\ commits > 0
    /\ qrValue = lastText
    /\ qrValue # ""
    /\ view.artifact = "svg"

\* C19: once the value field has been quiet for the debounce window, the
\* timer of its last edit is due or has fired, and once it has fired the
\* committed value is the form's current text, whatever fields were edited
\* and whatever was committed at once in between; a commit never sets an
\* older text.
C19_QuietMeansCommitted ==
    /\ quiet = DebounceMs => (timer = Null \/ TimerDue)
    /\ timer = Null => (qrValue = form.value /\ view.value = form.value)
    /\ form.value = lastText
    /\ (commits > 0 /\ qrValue # form.value) => timer # Null

\* Another field was edited during the quiet period of a burst of text
\* edits, committing the text at once; the timer has fired since.
C19_Witness ==
    /\ quiet = DebounceMs
    /\ timer = Null
    /\ ~clean
    /\ edits >= 2
    /\ commits >= 2
    /\ qrValue = "ab"
    /\ form.value = "ab"

\* C7: whenever the export actions are shown, the copy button is disabled
\* exactly when the form's format is "svg".
C7_CopyDisabledIffSvg ==
    view.actionsShown => (view.copyDisabled <=> form.format = "svg")

\* The export actions are shown for a vector artifact, with copy disabled.
C7_Witness ==
    /\ view.actionsShown
    /\ form.format = "svg"
    /\ view.copyDisabled
    /\ view.artifact = "svg"

\* C8: an artifact and its export actions are rendered exactly when the
\* committed value is non-empty, and the artifact encodes the committed value.
C8_ArtifactIffCommitted ==
    /\ (view.artifact # "none") <=> (qrValue # "")
    /\ view.actionsShown <=> (qrValue # "")
    /\ view.artifact # "none" => view.value = qrValue

\* The text field has been cleared but the clearing edit is not committed
\* yet: the artifact of the committed value is still rendered.
C8_Witness ==
    /\ form.value = ""
    /\ timer # Null
    /\ qrValue # ""
    /\ view.artifact # "none"
    /\ view.actionsShown

C6_TabSwitchKeepsState ==
    [][tab' # tab
         => UNCHANGED <<form, qrValue, logo, logoTasks, timer, view,
                        qrCodeImage, qrCodeData, errorMessage, readerTasks>>]_vars

\* Back on "create" after a decode on "read": the generator still holds the
\* text, the format and the logo it was left with, the reader its result.
C6_Witness ==
    /\ tab = "create"
    /\ IsSet(qrCodeData)
    /\ IsSet(qrCodeImage)
    /\ qrValue = "a"
    /\ form.format = "svg"
    /\ logo # Null

\* C9: a drop with no accepted file, in either dropzone, changes no state and
\* starts no read.
C9_EmptyDropChangesNothing ==
    [][((lastDrop'.reader = "empty" /\ lastDrop.reader # "empty")
          \/ (lastDrop'.logo = "empty" /\ lastDrop.logo # "empty"))
         => UNCHANGED <<logo, logoTasks, form, qrValue, timer, view,
                        qrCodeImage, qrCodeData, errorMessage, readerTasks>>]_vars

\* Both dropzones last handled an empty drop, after each had loaded a file.
C9_Witness ==
    /\ lastDrop.reader = "empty"
    /\ lastDrop.logo = "empty"
    /\ IsSet(qrCodeImage)
    /\ IsSet(qrCodeData)
    /\ logo # Null

(***************************************************************************)
(* Properties of the export actions (checked under ExportSpec).            *)
(***************************************************************************)
\* C11: every copy-to-clipboard call on a rendered raster artifact ends with
\* exactly one notification, the success one or the failure one: the step
\* in which a call ends shows one of the two.
C11_CopyEndsWithOneToast ==
    [][\A k \in copyTasks :
          (\A j \in copyTasks' : j.id # k.id)
              => /\ Len(toasts') = Len(toasts) + 1
                 /\ toasts'[Len(toasts')] \in {CopySuccessToast, CopyErrorToast}]_vars

\* C12: a download call triggers exactly one file save, named "qrcode.png"
\* for the format png and "qrcode.svg" for svg, and shows no notification;
\* with no artifact handle the function saves nothing and shows nothing.
C12_DownloadSavesFixedName ==
    [][/\ \A f \in Formats : DownloadOutcome(f, "none") = [save |-> Null, toast |-> Null]
       /\ saves' # saves => downloads' = downloads + 1
       /\ downloads' # downloads
             => /\ saves' = Append(saves, IF form.format = "png" THEN "qrcode.png"
                                                                ELSE "qrcode.svg")
                /\ toasts' = toasts]_vars

\* A vector artifact was downloaded, after a raster one.
C12_Witness ==
    /\ downloads = 2
    /\ saves = <<"qrcode.png", "qrcode.svg">>
    /\ toasts = <<>>

\* C20: whenever the export buttons are shown, the element the ref holds is
\* the one for the form's current format, and no download has shown the
\* failure notification.
C20_HandleMatchesFormat ==
    /\ view.actionsShown => qrRef = (IF form.format = "png" THEN "canvas" ELSE "svg")
    /\ \A i \in 1..Len(toasts) : toasts[i] # DownloadErrorToast
    /\ Len(saves) = downloads

\* Downloads on both sides of a format change, and one more change since.
C20_Witness ==
    /\ saves = <<"qrcode.svg", "qrcode.png">>
    /\ form.format = "svg"
    /\ qrRef = "svg"
    /\ view.actionsShown

(***************************************************************************)
(* Properties of the form's bounds (FormSpec) and of the logo overlay      *)
(* (OverlaySpec).                                                          *)
(***************************************************************************)
\* C13: in every reachable state of the form, size is one of the presets
\* 256, 512, 1024, 2048, 4096 (so within 128..4096), margin is an integer in
\* 0..4 and logoSize an integer in 1..50.
C13_SettingsWithinBounds ==
    /\ form.size \in {256, 512, 1024, 2048, 4096}
    /\ form.size >= 128 /\ form.size <= 4096
    /\ form.margin \in Int /\ form.margin >= 0 /\ form.margin <= 4
    /\ form.logoSize \in Int /\ form.logoSize >= 1 /\ form.logoSize <= 50

\* Every control has been moved to an end of its range, and a value is shown.
C13_Witness ==
    /\ form.size = 4096
    /\ form.margin = 0
    /\ form.logoSize = 50
    /\ view.marginSize = 0
    /\ view.artifact = "canvas"

\* C16: when a logo is present, the overlay handed to the rendered widget,
\* raster or vector alike, has width = height = size * logoSize / 100 with
\* excavation on; the side is positive and at most half the artifact's size.
C16_OverlaySide ==
    /\ CanvasImageSettings(form, logo) = SVGImageSettings(form, logo)
    /\ (view.artifact # "none" /\ logo # Null)
          => /\ view.imageSettings # Null
             /\ LET o == view.imageSettings[1]
                IN  /\ o.src = logo[1]
                    /\ o.width100 = form.size * form.logoSize
                    /\ o.height100 = o.width100
                    /\ o.excavate
                    /\ o.width100 > 0
                    /\ 2 * o.width100 <= 100 * form.size

\* The largest logo on the largest vector artifact: exactly half its size.
C16_Witness ==
    /\ view.artifact = "svg"
    /\ logo # Null
    /\ form.size = 4096
    /\ form.logoSize = 50
    /\ view.imageSettings # Null
    /\ view.imageSettings[1].width100 = 204800

(***************************************************************************)
(* Properties of the logo upload (CropSpec, LogoSpec).                     *)
(***************************************************************************)
\* C14: for an image of width W >= 1 and height H >= 1, the logo is the
\* square of side min(W, H) at offsets ((W - side)/2, (H - side)/2): the
\* offsets are not negative, one of them is 0, and the square lies inside
\* the image. Offsets are compared doubled.
C14_CenteredSquareCrop ==
    logo # Null =>
        LET c == logo[1]
            W == c.src.width
            H == c.src.height
            side == IF W <= H THEN W ELSE H
        IN  /\ W >= 1 /\ H >= 1
            /\ c.size = side
            /\ c.offsetX2 = W - side
            /\ c.offsetY2 = H - side
            /\ c.offsetX2 >= 0 /\ c.offsetY2 >= 0
            /\ c.offsetX2 = 0 \/ c.offsetY2 = 0
            /\ c.offsetX2 + 2 * c.size <= 2 * W
            /\ c.offsetY2 + 2 * c.size <= 2 * H

\* A 1 x MaxDim image was cropped to 1 x 1, at a vertical offset that is
\* not a whole number.
C14_Witness ==
    /\ logo # Null
    /\ logo[1].src.width = 1
    /\ logo[1].src.height = MaxDim
    /\ logo[1].size = 1
    /\ logo[1].offsetX2 = 0
    /\ logo[1].offsetY2 = MaxDim - 1

\* C17: the logo reflects the most recent logo action: a logo that is set
\* comes from a file accepted after the last "Remove Logo", and once every
\* callback has run a logo that is set is the crop of the last file accepted.
C17_LogoReflectsLastAction ==
    /\ logo # Null => logoBy > removedAt
    /\ (logo # Null /\ logoTasks = {}) => logoBy = logoLoads

====
